---- MODULE Spec2Model ----
(***************************************************************************)
(* Model of JupyterLabSparkMonitor: the channel manager (startComm and the *)
(* kernel statusChanged handler), the dispatcher (handleMessage,           *)
(* onSparkJobStart, onSparkStageSubmitted) and the cell presentation gate  *)
(* (createElementIfNotExists).                                             *)
(*                                                                         *)
(* The repository holds two revisions of the class:                        *)
(*   "lab"      src/src/lab-extension/jupyterlab-sparkmonitor.ts           *)
(*   "part_000" src/unnamed/part_000                                       *)
(* They differ in the gate (cellWidgetMap versus a lookup in the output    *)
(* area) and in where the handlers call it.  The variable build selects    *)
(* the revision a behaviour runs; it never changes.                        *)
(*                                                                         *)
(* CurrentCellTracker (./current-cell) and the NotebookStore are not part  *)
(* of the sources; the tracker is modelled from its contract, the store as *)
(* the sequence of calls it receives.                                      *)
(***************************************************************************)
EXTENDS Integers, Sequences, FiniteSets, TLC

\* ------------------------------------------------------------------ bounds
MaxExec == 2

MaxStarts == 2

\* --------------------------------------------------------------- constants
Builds == {"lab", "part_000"}

NoCell == "none"

CodeCells == {"c1"}

Cells == CodeCells \cup {"m1"}

cellType(c) == IF c \in CodeCells THEN "code" ELSE "markdown"

\* what notebookPanel...session.kernel is when the constructor reads it:
\* undefined, a kernel with createComm, or a legacy kernel with connectToComm
Kernels == {"undefined", "createComm", "connectToComm"}

Statuses == {"starting", "idle"}

NoComm == 0

ForwardedKinds == {"sparkJobEnd", "sparkStageCompleted", "sparkStageActive",
                   "sparkTaskStart", "sparkTaskEnd", "sparkApplicationStart",
                   "sparkExecutorAdded", "sparkExecutorRemoved"}

RecognizedKinds == ForwardedKinds \cup
                   {"sparkJobStart", "sparkStageSubmitted", "sparkApplicationEnd"}

\* the msg field of an envelope: the text of a JSON object carrying a
\* msgtype, the text "null", or text that is not JSON
RawPayloads == [text : {"object"}, msgtype : RecognizedKinds \cup {"sparkFoo"}]
               \cup [text : {"null", "garbage"}, msgtype : {""}]

\* top-level msgtype of an envelope; "" is a missing msgtype
EnvelopeTypes == {"fromscala", "openfrombackend", ""}

NoPayload == [text |-> "garbage", msgtype |-> ""]

\* envelopes: every payload under "fromscala", one under any other msgtype
Messages == [msgtype : {"fromscala"}, msg : RawPayloads]
            \cup [msgtype : EnvelopeTypes \ {"fromscala"},
                  msg : {NoPayload, [text |-> "object", msgtype |-> "sparkJobStart"]}]

\* JSON.parse: throws on text that is not JSON, yields null for "null",
\* else the decoded object
JSONparse(raw) ==
  IF raw.text = "garbage" THEN [threw |-> TRUE, isNull |-> FALSE, msgtype |-> ""]
  ELSE IF raw.text = "null" THEN [threw |-> FALSE, isNull |-> TRUE, msgtype |-> ""]
  ELSE [threw |-> FALSE, isNull |-> FALSE, msgtype |-> raw.msgtype]

\* one observable effect of a handler
Ev(op, cell, kind) == [op |-> op, cell |-> cell, kind |-> kind]

\* how many of the effects tr are calls of op
CountOp(tr, op) == Cardinality({i \in 1..Len(tr) : tr[i].op = op})

SinkOps == {"onCellExecutedAgain", "onSparkJobStart", "onSparkStageSubmitted"} \cup
           {"onSparkJobEnd", "onSparkStageCompleted", "onSparkStageActive",
            "onSparkTaskStart", "onSparkTaskEnd", "onSparkApplicationStart",
            "onSparkExecutorAdded", "onSparkExecutorRemoved"}

\* the NotebookStore method a forwarded kind is handed to
SinkMethod(kind) ==
  CASE kind = "sparkJobEnd" -> "onSparkJobEnd"
    [] kind = "sparkStageCompleted" -> "onSparkStageCompleted"
    [] kind = "sparkStageActive" -> "onSparkStageActive"
    [] kind = "sparkTaskStart" -> "onSparkTaskStart"
    [] kind = "sparkTaskEnd" -> "onSparkTaskEnd"
    [] kind = "sparkApplicationStart" -> "onSparkApplicationStart"
    [] kind = "sparkExecutorAdded" -> "onSparkExecutorAdded"
    [] kind = "sparkExecutorRemoved" -> "onSparkExecutorRemoved"

VARIABLES
  build,                            \* which revision of the class runs
  kernel,                           \* this.kernel
  trackerReady,                     \* currentCellTracker.ready() has resolved
  activeCell,                       \* currentCellTracker.getActiveCell()
  numCellsExecuted,                 \* currentCellTracker.getNumCellsExecuted()
  cellReexecuted,                   \* currentCellTracker.cellReexecuted
  cellExecCountSinceSparkJobStart,  \* the saved counter
  cellWidgetMap,                    \* cell ids mapped to true ("lab" only)
  surfaces,                         \* cell -> presentation widgets inserted
  comm,                             \* this.comm: NoComm or a channel id
  comms,                            \* channels opened, onMsg registered
  created,                          \* channel objects the kernel has handed out
  pendingStarts,                    \* startComm calls awaiting ready().then
  startCommCalls,                   \* startComm calls so far
  raised,                           \* the last handler let an exception escape
  last,                             \* the last handler and its inputs
  trace,                            \* the effects of the last handler, in order
  resets,                           \* onCellExecutedAgain calls so far
  resetsSinceStart                  \* ... since the last execution-start signal

vars == <<build, kernel, trackerReady, activeCell, numCellsExecuted,
          cellReexecuted, cellExecCountSinceSparkJobStart, cellWidgetMap,
          surfaces, comm, comms, created, pendingStarts, startCommCalls,
          raised, last, trace, resets, resetsSinceStart>>

trackerVars == <<trackerReady, activeCell, numCellsExecuted>>

dispatchVars == <<cellExecCountSinceSparkJobStart, cellWidgetMap, surfaces>>

commVars == <<comm, comms, created, pendingStarts, startCommCalls>>

historyVars == <<resets, resetsSinceStart>>

NoMsg == [msgtype |-> "", msg |-> NoPayload]

\* what the gate's lookups return when the handler makes none
NoDom == [found |-> FALSE, hasRoot |-> FALSE, outputArea |-> FALSE]

Last(h, arg, msg, cell) ==
  [h |-> h, arg |-> arg, msg |-> msg, cell |-> cell, dom |-> NoDom]

\* ------------------------------------------------------------- constructor
\* fields after the constructor returns: the tracker is created, the kernel
\* looked up, startComm called once (its continuation is pending)
Init ==
  /\ build \in Builds
  /\ kernel \in Kernels
  /\ trackerReady = FALSE
  /\ activeCell = NoCell
  /\ numCellsExecuted = 0
  /\ cellReexecuted = FALSE
  /\ cellExecCountSinceSparkJobStart = 0
  /\ cellWidgetMap = {}
  /\ surfaces = [c \in Cells |-> 0]
  /\ comm = NoComm
  /\ comms = {}
  /\ created = 0
  /\ pendingStarts = 1
  /\ startCommCalls = 1
  /\ raised = FALSE
  /\ last = Last("constructor", "", NoMsg, NoCell)
  /\ trace = <<Ev("startComm", NoCell, "")>>
  /\ resets = 0
  /\ resetsSinceStart = 0

\* -------------------------------------------------- CurrentCellTracker
\* ready() resolves: the tracker has attached to the notebook's signals
trackerBecomesReady ==
  /\ ~trackerReady
  /\ trackerReady' = TRUE
  /\ last' = Last("ready", "", NoMsg, activeCell)
  /\ trace' = <<>>
  /\ raised' = FALSE
  /\ UNCHANGED <<build, kernel, activeCell, numCellsExecuted, cellReexecuted,
                 dispatchVars, commVars, historyVars>>

\* a cell began executing: it becomes the active cell and the counter grows
\* by one; the tracker may raise its re-execution flag
onCellStarted(c, re) ==
  /\ trackerReady
  /\ numCellsExecuted < MaxExec
  /\ activeCell' = c
  /\ numCellsExecuted' = numCellsExecuted + 1
  /\ cellReexecuted' = re
  /\ last' = Last("onCellStarted", c, NoMsg, activeCell)
  /\ trace' = <<>>
  /\ raised' = FALSE
  /\ resetsSinceStart' = 0
  /\ UNCHANGED <<build, kernel, trackerReady, dispatchVars, commVars, resets>>

\* ------------------------------------------------------- channel manager
\* startComm up to the call of ready().then: one more continuation waits
startComm(pending, calls) ==
  [pending |-> pending + 1, calls |-> calls + 1,
   ev |-> <<Ev("startComm", NoCell, "")>>]

\* mutant: the re-execution flag is left alone
statusChangedEffects_flagKept(status) ==
  IF status = "starting"
  THEN LET s == startComm(pendingStarts, startCommCalls)
       IN [flag |-> cellReexecuted, pending |-> s.pending, calls |-> s.calls,
           ev |-> <<Ev("cellReexecuted=false", NoCell, "")>> \o s.ev]
  ELSE [flag |-> cellReexecuted, pending |-> pendingStarts,
        calls |-> startCommCalls, ev |-> <<>>]

\* the kernel's statusChanged signal; connected only when this.kernel is set
statusChangedEffects(status) ==
  IF status = "starting"
  THEN LET s == startComm(pendingStarts, startCommCalls)
       IN [flag |-> FALSE, pending |-> s.pending, calls |-> s.calls,
           ev |-> <<Ev("cellReexecuted=false", NoCell, "")>> \o s.ev]
  ELSE [flag |-> cellReexecuted, pending |-> pendingStarts,
        calls |-> startCommCalls, ev |-> <<>>]

\* mutant: a restart also forgets the saved counter
statusChanged_forgetsSaved(status) ==
  /\ kernel # "undefined"
  /\ status = "starting" => startCommCalls < MaxStarts
  /\ LET r == statusChangedEffects(status)
     IN /\ cellReexecuted' = r.flag
        /\ pendingStarts' = r.pending
        /\ startCommCalls' = r.calls
        /\ trace' = r.ev
  /\ cellExecCountSinceSparkJobStart' =
       IF status = "starting" THEN 0 ELSE cellExecCountSinceSparkJobStart
  /\ last' = Last("statusChanged", status, NoMsg, activeCell)
  /\ raised' = FALSE
  /\ UNCHANGED <<build, kernel, trackerVars, cellWidgetMap, surfaces, comm,
                 comms, created, historyVars>>

statusChanged(status) ==
  /\ kernel # "undefined"
  /\ status = "starting" => startCommCalls < MaxStarts
  /\ LET r == statusChangedEffects(status)
     IN /\ cellReexecuted' = r.flag
        /\ pendingStarts' = r.pending
        /\ startCommCalls' = r.calls
        /\ trace' = r.ev
  /\ last' = Last("statusChanged", status, NoMsg, activeCell)
  /\ raised' = FALSE
  /\ UNCHANGED <<build, kernel, trackerVars, dispatchVars, comm, comms, created,
                 historyVars>>

\* mutant: the channel is opened without waiting for ready()
readyGate_notAwaited == TRUE

\* may the callback handed to ready().then run?
readyGate == trackerReady

\* the callback startComm hands to ready().then; ret is what the kernel's
\* createComm / connectToComm returns: a channel object or undefined
startCommThen(ret) ==
  IF kernel = "undefined"
  THEN \* (this.kernel as any).connectToComm(...) throws a TypeError
       [comm |-> comm, comms |-> comms, created |-> created, threw |-> TRUE,
        ev |-> <<>>]
  ELSE IF ret = "undefined"
  THEN [comm |-> NoComm, comms |-> comms, created |-> created, threw |-> FALSE,
        ev |-> <<Ev("warn", NoCell, "Unable to connect to comm")>>]
  ELSE LET id == created + 1
       IN [comm |-> id, comms |-> comms \cup {id}, created |-> id,
           threw |-> FALSE,
           ev |-> <<Ev(kernel, NoCell, "SparkMonitor"),
                    Ev("open", NoCell, "openfromfrontend"),
                    Ev("onMsg=", NoCell, ""), Ev("onClose=", NoCell, "")>>]

startCommContinuation(ret) ==
  /\ readyGate
  /\ pendingStarts > 0
  /\ LET r == startCommThen(ret)
     IN /\ comm' = r.comm
        /\ comms' = r.comms
        /\ created' = r.created
        /\ raised' = r.threw
        /\ trace' = r.ev
  /\ pendingStarts' = pendingStarts - 1
  /\ last' = Last("startCommThen", ret, NoMsg, activeCell)
  /\ UNCHANGED <<build, kernel, trackerVars, cellReexecuted, dispatchVars,
                 startCommCalls, historyVars>>

\* ------------------------------------------------- cell presentation gate
\* what the gate's lookups in the notebook return for a cell:
\*   found       content.widgets.find(widget.model === cellModel) is defined
\*   hasRoot     codeCell.node.querySelector('.sparkMonitorCellRoot') is set
\*   outputArea  codeCell.outputArea is set ("part_000" only)
\* The root element is rendered by an inserted presentation widget, so it
\* can only be found in a cell that holds one.  A lookup the handler never
\* makes (no gate call, or a revision without that lookup) is fixed to FALSE
\* (NoDom).
Doms(msg, surf, c) ==
  IF /\ msg.msgtype = "fromscala"
     /\ msg.msg.text = "object"
     /\ msg.msg.msgtype \in {"sparkJobStart", "sparkStageSubmitted"}
     /\ c # NoCell
  THEN {d \in [found : BOOLEAN, hasRoot : BOOLEAN, outputArea : BOOLEAN] :
          /\ d.hasRoot => (d.found /\ surf[c] > 0)
          /\ d.outputArea => (build = "part_000" /\ d.found /\ ~d.hasRoot)}
  ELSE {NoDom}

Gate(map, surf, ev) == [map |-> map, surf |-> surf, ev |-> ev]

\* mutant: the cell is marked even when no widget was inserted
createElementIfNotExists_markAlways(map, surf, c, dom) ==
  LET called == <<Ev("createElementIfNotExists", c, "")>>
  IN IF c \in map THEN Gate(map, surf, called)
     ELSE IF cellType(c) = "code"
     THEN IF dom.found /\ ~dom.hasRoot
          THEN Gate(map \cup {c}, [surf EXCEPT ![c] = @ + 1],
                    called \o <<Ev("insertWidget", c, "")>>)
          ELSE Gate(map \cup {c}, surf, called)
     ELSE Gate(map, surf, called)

\* mutant: the cellWidgetMap guard is missing
createElementIfNotExists_noMapGuard(map, surf, c, dom) ==
  IF cellType(c) = "code" /\ dom.found /\ ~dom.hasRoot
  THEN Gate(map \cup {c}, [surf EXCEPT ![c] = @ + 1],
            <<Ev("createElementIfNotExists", c, ""), Ev("insertWidget", c, "")>>)
  ELSE Gate(map, surf, <<Ev("createElementIfNotExists", c, "")>>)

\* "lab" revision: guarded by cellWidgetMap
createElementIfNotExists(map, surf, c, dom) ==
  LET called == <<Ev("createElementIfNotExists", c, "")>>
  IN IF c \in map THEN Gate(map, surf, called)
     ELSE IF cellType(c) = "code" /\ dom.found /\ ~dom.hasRoot
     THEN Gate(map \cup {c}, [surf EXCEPT ![c] = @ + 1],
               called \o <<Ev("insertWidget", c, "")>>)
     ELSE Gate(map, surf, called)

\* "part_000" revision: no map; looks for the widget in the output area
createElementIfNotExists_p0(map, surf, c, dom) ==
  LET called == <<Ev("createElementIfNotExists", c, "")>>
  IN IF cellType(c) = "code" /\ dom.found /\ ~dom.hasRoot
     THEN IF ~dom.outputArea THEN Gate(map, surf, called)
          ELSE IF surf[c] > 0 THEN Gate(map, surf, called)
          ELSE Gate(map, [surf EXCEPT ![c] = @ + 1],
                    called \o <<Ev("insertWidget", c, "")>>)
     ELSE Gate(map, surf, called)

\* ------------------------------------------------------------- dispatcher
\* the outcome of one handler: the saved counter, the gate's state, the
\* effects in order, and whether an exception escaped
Out(saved, map, surf, ev, threw) ==
  [saved |-> saved, map |-> map, surf |-> surf, ev |-> ev, threw |-> threw]

Dropped(ev) ==
  Out(cellExecCountSinceSparkJobStart, cellWidgetMap, surfaces, ev, FALSE)

\* mutant: the first job start is never taken for a new execution
newExecution_afterFirst(count, saved) == count > saved /\ saved > 0

\* mutant: the comparison accepts an equal counter
newExecution_orEqual(count, saved) == count >= saved

\* is this a new execution (a cell has been run since the last job start)?
newExecution(count, saved) == count > saved

\* mutant: the saved counter is not updated on a new execution
onSparkJobStart_savedNotUpdated(data, dom) ==
  LET cell == activeCell
  IN IF cell = NoCell
     THEN Dropped(<<Ev("warn", NoCell, "Job started with no running cell.")>>)
     ELSE LET g == createElementIfNotExists(cellWidgetMap, surfaces, cell, dom)
              new == newExecution(numCellsExecuted, cellExecCountSinceSparkJobStart)
          IN Out(cellExecCountSinceSparkJobStart, g.map, g.surf,
                 g.ev \o (IF new THEN <<Ev("onCellExecutedAgain", cell, "")>> ELSE <<>>)
                      \o <<Ev("onSparkJobStart", cell, data)>>,
                 FALSE)

\* mutant: the missing-cell check is gone, the event is forwarded untagged
onSparkJobStart_noCellCheck(data, dom) ==
  LET cell == activeCell
      new == newExecution(numCellsExecuted, cellExecCountSinceSparkJobStart)
  IN Out(IF new THEN numCellsExecuted ELSE cellExecCountSinceSparkJobStart,
         cellWidgetMap, surfaces,
         (IF new THEN <<Ev("onCellExecutedAgain", cell, "")>> ELSE <<>>)
           \o <<Ev("onSparkJobStart", cell, data)>>,
         FALSE)

\* "lab" revision
onSparkJobStart(data, dom) ==
  LET cell == activeCell
  IN IF cell = NoCell
     THEN Dropped(<<Ev("warn", NoCell, "Job started with no running cell.")>>)
     ELSE LET g == createElementIfNotExists(cellWidgetMap, surfaces, cell, dom)
              new == newExecution(numCellsExecuted, cellExecCountSinceSparkJobStart)
          IN Out(IF new THEN numCellsExecuted ELSE cellExecCountSinceSparkJobStart,
                 g.map, g.surf,
                 g.ev \o (IF new THEN <<Ev("onCellExecutedAgain", cell, "")>> ELSE <<>>)
                      \o <<Ev("onSparkJobStart", cell, data)>>,
                 FALSE)

\* mutant: the stage handler makes the new-execution check of the job handler
onSparkStageSubmitted_withCheck(data, dom) ==
  LET cell == activeCell
  IN IF cell = NoCell
     THEN Dropped(<<Ev("warn", NoCell, "Stage started with no running cell.")>>)
     ELSE LET g == createElementIfNotExists(cellWidgetMap, surfaces, cell, dom)
              new == newExecution(numCellsExecuted, cellExecCountSinceSparkJobStart)
          IN Out(IF new THEN numCellsExecuted ELSE cellExecCountSinceSparkJobStart,
                 g.map, g.surf,
                 g.ev \o (IF new THEN <<Ev("onCellExecutedAgain", cell, "")>> ELSE <<>>)
                      \o <<Ev("onSparkStageSubmitted", cell, data)>>,
                 FALSE)

\* mutant: the event is tagged with a fixed cell, not the active one
onSparkStageSubmitted_fixedCell(data, dom) ==
  LET cell == activeCell
  IN IF cell = NoCell
     THEN Dropped(<<Ev("warn", NoCell, "Stage started with no running cell.")>>)
     ELSE LET g == createElementIfNotExists(cellWidgetMap, surfaces, cell, dom)
          IN Out(cellExecCountSinceSparkJobStart, g.map, g.surf,
                 g.ev \o <<Ev("onSparkStageSubmitted", "c1", data)>>, FALSE)

onSparkStageSubmitted(data, dom) ==
  LET cell == activeCell
  IN IF cell = NoCell
     THEN Dropped(<<Ev("warn", NoCell, "Stage started with no running cell.")>>)
     ELSE LET g == createElementIfNotExists(cellWidgetMap, surfaces, cell, dom)
          IN Out(cellExecCountSinceSparkJobStart, g.map, g.surf,
                 g.ev \o <<Ev("onSparkStageSubmitted", cell, data)>>, FALSE)

\* "part_000" revision: the gate is called after the event is forwarded
onSparkJobStart_p0(data, dom) ==
  LET cell == activeCell
  IN IF cell = NoCell
     THEN Dropped(<<Ev("warn", NoCell, "Job started with no running cell.")>>)
     ELSE LET g == createElementIfNotExists_p0(cellWidgetMap, surfaces, cell, dom)
              new == newExecution(numCellsExecuted, cellExecCountSinceSparkJobStart)
          IN Out(IF new THEN numCellsExecuted ELSE cellExecCountSinceSparkJobStart,
                 g.map, g.surf,
                 (IF new THEN <<Ev("onCellExecutedAgain", cell, "")>> ELSE <<>>)
                   \o <<Ev("onSparkJobStart", cell, data)>> \o g.ev,
                 FALSE)

onSparkStageSubmitted_p0(data, dom) ==
  LET cell == activeCell
  IN IF cell = NoCell
     THEN Dropped(<<Ev("warn", NoCell, "Stage started with no running cell.")>>)
     ELSE LET g == createElementIfNotExists_p0(cellWidgetMap, surfaces, cell, dom)
          IN Out(cellExecCountSinceSparkJobStart, g.map, g.surf,
                 <<Ev("onSparkStageSubmitted", cell, data)>> \o g.ev, FALSE)

\* mutant: the other kinds are forwarded only while a cell is active
dispatch_forwardNeedsCell(kind, dom) ==
  CASE kind = "sparkJobStart" ->
         IF build = "lab" THEN onSparkJobStart(kind, dom)
                          ELSE onSparkJobStart_p0(kind, dom)
    [] kind = "sparkStageSubmitted" ->
         IF build = "lab" THEN onSparkStageSubmitted(kind, dom)
                          ELSE onSparkStageSubmitted_p0(kind, dom)
    [] kind \in ForwardedKinds ->
         IF activeCell = NoCell THEN Dropped(<<>>)
         ELSE Dropped(<<Ev(SinkMethod(kind), NoCell, kind)>>)
    [] kind = "sparkApplicationEnd" -> Dropped(<<>>)
    [] OTHER -> Dropped(<<Ev("warn", NoCell, "Unknown message")>>)

\* mutant: no default case, an unrecognized kind is forwarded as a job end
dispatch_noDefault(kind, dom) ==
  CASE kind = "sparkJobStart" ->
         IF build = "lab" THEN onSparkJobStart(kind, dom)
                          ELSE onSparkJobStart_p0(kind, dom)
    [] kind = "sparkStageSubmitted" ->
         IF build = "lab" THEN onSparkStageSubmitted(kind, dom)
                          ELSE onSparkStageSubmitted_p0(kind, dom)
    [] kind \in ForwardedKinds -> Dropped(<<Ev(SinkMethod(kind), NoCell, kind)>>)
    [] kind = "sparkApplicationEnd" -> Dropped(<<>>)
    [] OTHER -> Dropped(<<Ev("onSparkJobEnd", NoCell, kind)>>)

\* mutant: the break after sparkApplicationEnd is missing, the case falls
\* through to sparkExecutorAdded
dispatch_appEndFallsThrough(kind, dom) ==
  CASE kind = "sparkJobStart" ->
         IF build = "lab" THEN onSparkJobStart(kind, dom)
                          ELSE onSparkJobStart_p0(kind, dom)
    [] kind = "sparkStageSubmitted" ->
         IF build = "lab" THEN onSparkStageSubmitted(kind, dom)
                          ELSE onSparkStageSubmitted_p0(kind, dom)
    [] kind \in ForwardedKinds -> Dropped(<<Ev(SinkMethod(kind), NoCell, kind)>>)
    [] kind = "sparkApplicationEnd" ->
         Dropped(<<Ev("onSparkExecutorAdded", NoCell, kind)>>)
    [] OTHER -> Dropped(<<Ev("warn", NoCell, "Unknown message")>>)

\* the switch on the decoded msgtype
dispatch(kind, dom) ==
  CASE kind = "sparkJobStart" ->
         IF build = "lab" THEN onSparkJobStart(kind, dom)
                          ELSE onSparkJobStart_p0(kind, dom)
    [] kind = "sparkStageSubmitted" ->
         IF build = "lab" THEN onSparkStageSubmitted(kind, dom)
                          ELSE onSparkStageSubmitted_p0(kind, dom)
    [] kind \in ForwardedKinds -> Dropped(<<Ev(SinkMethod(kind), NoCell, kind)>>)
    [] kind = "sparkApplicationEnd" -> Dropped(<<>>)
    [] OTHER -> Dropped(<<Ev("warn", NoCell, "Unknown message")>>)

\* mutant: the payload is decoded whatever the envelope's msgtype
handleMessageOut_anyEnvelope(msg, dom) ==
  LET unknown == IF msg.msgtype = ""
                 THEN <<Ev("warn", NoCell, "Unknown message")>> ELSE <<>>
      data == JSONparse(msg.msg)
  IN IF data.threw \/ data.isNull
     THEN Out(cellExecCountSinceSparkJobStart, cellWidgetMap, surfaces,
              unknown, TRUE)
     ELSE LET r == dispatch(data.msgtype, dom)
          IN Out(r.saved, r.map, r.surf, unknown \o r.ev, r.threw)

handleMessageOut(msg, dom) ==
  LET unknown == IF msg.msgtype = ""
                 THEN <<Ev("warn", NoCell, "Unknown message")>> ELSE <<>>
  IN IF msg.msgtype = "fromscala"
     THEN LET data == JSONparse(msg.msg)
          IN IF data.threw \/ data.isNull
             THEN \* JSON.parse throws, or data.msgtype reads a property of null
                  Out(cellExecCountSinceSparkJobStart, cellWidgetMap, surfaces,
                      unknown, TRUE)
             ELSE LET r == dispatch(data.msgtype, dom)
                  IN Out(r.saved, r.map, r.surf, unknown \o r.ev, r.threw)
     ELSE Dropped(unknown)

\* comm.onMsg of a channel opened by startComm
handleMessage(msg, dom) ==
  /\ comms # {}
  /\ LET r == handleMessageOut(msg, dom)
     IN /\ cellExecCountSinceSparkJobStart' = r.saved
        /\ cellWidgetMap' = r.map
        /\ surfaces' = r.surf
        /\ trace' = r.ev
        /\ raised' = r.threw
        /\ resets' = resets + CountOp(r.ev, "onCellExecutedAgain")
        /\ resetsSinceStart' = resetsSinceStart + CountOp(r.ev, "onCellExecutedAgain")
  /\ last' = [Last("handleMessage", "", msg, activeCell) EXCEPT !.dom = dom]
  /\ UNCHANGED <<build, kernel, trackerVars, cellReexecuted, commVars>>

\* ------------------------------------------------------- specification
Next ==
  \/ trackerBecomesReady
  \/ \E c \in Cells, re \in BOOLEAN : onCellStarted(c, re)
  \/ \E status \in Statuses : statusChanged(status)
  \/ \E ret \in {"comm", "undefined"} : startCommContinuation(ret)
  \/ \E msg \in Messages :
       \E dom \in Doms(msg, surfaces, activeCell) : handleMessage(msg, dom)

Spec == Init /\ [][Next]_vars

\* ------------------------------------------------------------ properties
HasOp(tr, op) == \E i \in 1..Len(tr) : tr[i].op = op

SinkCalls(tr) == SelectSeq(tr, LAMBDA e : e.op \in SinkOps)

\* msg is a "fromscala" envelope whose payload decodes to msgtype kind
Carries(msg, kind) ==
  /\ msg.msgtype = "fromscala"
  /\ msg.msg.text = "object"
  /\ msg.msg.msgtype = kind

JobOrStage(msg) ==
  Carries(msg, "sparkJobStart") \/ Carries(msg, "sparkStageSubmitted")

ForwardOps == {"onSparkJobStart", "onSparkStageSubmitted"}

\* C1: a job-start or stage-submitted message dispatched while no cell is
\* active reaches the store with no call at all (no reset, no forward), the
\* gate is not called and no surface is created, and handleMessage returns
\* normally.
C1_DroppedWithoutActiveCell ==
  [][(last'.h = "handleMessage" /\ JobOrStage(last'.msg) /\ activeCell = NoCell)
       => /\ SinkCalls(trace') = <<>>
          /\ ~HasOp(trace', "createElementIfNotExists")
          /\ ~HasOp(trace', "insertWidget")
          /\ surfaces' = surfaces
          /\ cellWidgetMap' = cellWidgetMap
          /\ ~raised']_vars

C1_Witness ==
  /\ last.h = "handleMessage"
  /\ Carries(last.msg, "sparkJobStart")
  /\ activeCell = NoCell
  /\ trace = <<Ev("warn", NoCell, "Job started with no running cell.")>>
  /\ ~raised

\* C2: for a job-start dispatched with a cell active, onCellExecutedAgain is
\* called if and only if the tracker's counter exceeds the saved counter;
\* when called it is for the active cell, comes before the onSparkJobStart
\* forward of the same message, and the saved counter becomes the tracker's
\* counter; without it the saved counter is unchanged; the forward is made
\* exactly once either way.
C2_ResetIffNewExecution ==
  [][(last'.h = "handleMessage" /\ Carries(last'.msg, "sparkJobStart")
        /\ activeCell # NoCell)
       => LET calls == SinkCalls(trace')
              reset == Ev("onCellExecutedAgain", activeCell, "")
              fwd == Ev("onSparkJobStart", activeCell, "sparkJobStart")
          IN IF numCellsExecuted > cellExecCountSinceSparkJobStart
             THEN /\ calls = <<reset, fwd>>
                  /\ cellExecCountSinceSparkJobStart' = numCellsExecuted
             ELSE /\ calls = <<fwd>>
                  /\ cellExecCountSinceSparkJobStart' = cellExecCountSinceSparkJobStart]_vars

\* a job-start after a second execution-start signal: reset, then forward
C2_Witness ==
  /\ last.h = "handleMessage"
  /\ Carries(last.msg, "sparkJobStart")
  /\ activeCell = "c1"
  /\ numCellsExecuted = 2
  /\ cellExecCountSinceSparkJobStart = 2
  /\ SinkCalls(trace) = <<Ev("onCellExecutedAgain", "c1", ""),
                          Ev("onSparkJobStart", "c1", "sparkJobStart")>>

\* C3: for a job-start or stage-submitted message dispatched with a cell
\* active, the gate is called for that cell before the event is forwarded,
\* and no surface is inserted for the cell after the store has received the
\* event.
C3_GateBeforeForward ==
  (last.h = "handleMessage" /\ JobOrStage(last.msg) /\ last.cell # NoCell)
    => /\ \E i, j \in 1..Len(trace) :
            /\ i < j
            /\ trace[i] = Ev("createElementIfNotExists", last.cell, "")
            /\ trace[j].op \in ForwardOps
            /\ trace[j].cell = last.cell
       /\ \A i, j \in 1..Len(trace) :
            (trace[i].op \in ForwardOps /\ trace[j].op = "insertWidget") => j < i

\* C4: however many job-start / stage-submitted events arrive for a cell, at
\* most one presentation surface is ever created for it, and a gate call for
\* a cell already marked in cellWidgetMap, or for a cell that is not a code
\* cell, changes neither the surfaces nor the map.
C4_GateIdempotent ==
  [][/\ \A c \in Cells : surfaces'[c] <= 1
     /\ (last'.h = "handleMessage" /\ HasOp(trace', "createElementIfNotExists")
           /\ (activeCell \in cellWidgetMap \/ cellType(activeCell) # "code"))
          => (surfaces' = surfaces /\ cellWidgetMap' = cellWidgetMap)]_vars

\* a gate call for a cell that already has its surface
C4_Witness ==
  /\ last.h = "handleMessage"
  /\ JobOrStage(last.msg)
  /\ activeCell = "c1"
  /\ surfaces["c1"] = 1
  /\ HasOp(trace, "createElementIfNotExists")
  /\ ~HasOp(trace, "insertWidget")

\* C5: handleMessage returns normally for every inbound message, and a
\* "fromscala" envelope whose payload does not decode leads to no store
\* call.
C5_NoExceptionEscapes ==
  last.h = "handleMessage"
    => /\ ~raised
       /\ (last.msg.msgtype = "fromscala" /\ last.msg.msg.text = "garbage")
            => SinkCalls(trace) = <<>>

\* C6: a "fromscala" message whose decoded msgtype is not a recognized kind
\* is dropped: no store call, no gate call, no surface, the saved counter
\* and the map unchanged, nothing raised.
C6_UnknownKindDropped ==
  [][(last'.h = "handleMessage" /\ last'.msg.msgtype = "fromscala"
        /\ last'.msg.msg.text = "object"
        /\ last'.msg.msg.msgtype \notin RecognizedKinds)
       => /\ SinkCalls(trace') = <<>>
          /\ ~HasOp(trace', "createElementIfNotExists")
          /\ surfaces' = surfaces
          /\ cellWidgetMap' = cellWidgetMap
          /\ cellExecCountSinceSparkJobStart' = cellExecCountSinceSparkJobStart
          /\ ~raised']_vars

\* "sparkFoo" arrives while a cell is active and a new execution is pending
C6_Witness ==
  /\ last.h = "handleMessage"
  /\ Carries(last.msg, "sparkFoo")
  /\ activeCell = "c1"
  /\ numCellsExecuted > cellExecCountSinceSparkJobStart
  /\ trace = <<Ev("warn", NoCell, "Unknown message")>>

\* C7: dispatching a sparkApplicationEnd event makes no store call, whether
\* or not a cell is active.
C7_ApplicationEndNoop ==
  (last.h = "handleMessage" /\ Carries(last.msg, "sparkApplicationEnd"))
    => (SinkCalls(trace) = <<>> /\ ~raised)

C7_Witness ==
  /\ last.h = "handleMessage"
  /\ Carries(last.msg, "sparkApplicationEnd")
  /\ activeCell # NoCell
  /\ trace = <<>>

\* C8: every statusChanged signal with status "starting" sets cellReexecuted
\* to false and then calls startComm exactly once, whatever the state of the
\* channel (open, unset, or a startComm still waiting for ready()).
C8_StartingReconnects ==
  [][(last'.h = "statusChanged" /\ last'.arg = "starting")
       => /\ cellReexecuted' = FALSE
          /\ startCommCalls' = startCommCalls + 1
          /\ pendingStarts' = pendingStarts + 1
          /\ trace' = <<Ev("cellReexecuted=false", NoCell, ""),
                        Ev("startComm", NoCell, "")>>]_vars

\* "starting" arrives while a channel is open
C8_Witness ==
  /\ last.h = "statusChanged"
  /\ last.arg = "starting"
  /\ comm # NoComm
  /\ comm \in comms
  /\ ~cellReexecuted
  /\ pendingStarts = 1
  /\ numCellsExecuted > 0

\* C9: while the tracker's ready() has not resolved no channel exists: none
\* has been created, announced or given an inbound handler, and this.comm is
\* unset.
C9_NoChannelBeforeReady ==
  ~trackerReady => (created = 0 /\ comms = {} /\ comm = NoComm)

\* two startComm calls are waiting for a ready() that has not resolved
C9_Witness ==
  /\ ~trackerReady
  /\ kernel = "createComm"
  /\ pendingStarts = 2
  /\ startCommCalls = 2
  /\ created = 0

\* C10: at most one channel is open and delivering inbound messages to
\* handleMessage.
C10_AtMostOneOpenChannel ==
  Cardinality(comms) <= 1

\* the gate's lookups let a surface be shown: the cell's widget is found
\* and, in "part_000", it has an output area (or already shows a root)
CanPresent(d) == d.found /\ (build = "lab" \/ d.outputArea \/ d.hasRoot)

\* the first job start after the first execution-start signal, for "c1"
FirstJobStep ==
  /\ last'.h = "handleMessage"
  /\ Carries(last'.msg, "sparkJobStart")
  /\ activeCell = "c1"
  /\ numCellsExecuted = 1
  /\ cellExecCountSinceSparkJobStart = 0
  /\ CanPresent(last'.dom)

\* C11 (as claimed): after one execution-start signal for "c1" and one
\* sparkJobStart message, a surface exists for "c1", the store receives
\* onSparkJobStart("c1", data), and it receives no onCellExecutedAgain call.
C11_FirstJobNoReset ==
  [][FirstJobStep
       => /\ surfaces'["c1"] >= 1
          /\ HasOp(trace', "onSparkJobStart")
          /\ ~HasOp(trace', "onCellExecutedAgain")]_vars

\* C11 (amended): after one execution-start signal for "c1" and one
\* sparkJobStart message, a surface exists for "c1" when the cell can be
\* presented, and the store receives onCellExecutedAgain("c1") followed by
\* onSparkJobStart("c1", data): the counter 1 exceeds the initial saved
\* counter 0, so the first job resets the cell.
C11_FirstJobResets ==
  [][FirstJobStep
       => /\ surfaces'["c1"] >= 1
          /\ SinkCalls(trace') = <<Ev("onCellExecutedAgain", "c1", ""),
                                   Ev("onSparkJobStart", "c1", "sparkJobStart")>>
          /\ cellExecCountSinceSparkJobStart' = 1]_vars

C11_Witness ==
  /\ last.h = "handleMessage"
  /\ Carries(last.msg, "sparkJobStart")
  /\ activeCell = "c1"
  /\ numCellsExecuted = 1
  /\ resets = 1
  /\ surfaces["c1"] = 1
  /\ HasOp(trace, "insertWidget")
  /\ SinkCalls(trace) = <<Ev("onCellExecutedAgain", "c1", ""),
                          Ev("onSparkJobStart", "c1", "sparkJobStart")>>

\* C12: a message whose top-level msgtype is not "fromscala" (a missing
\* msgtype included) is ignored: its msg is not decoded (so nothing is
\* raised even when msg is not JSON), no store call is made, the gate is not
\* called, and the saved counter, the map and the surfaces are unchanged.
C12_OtherEnvelopeIgnored ==
  [][(last'.h = "handleMessage" /\ last'.msg.msgtype # "fromscala")
       => /\ SinkCalls(trace') = <<>>
          /\ ~HasOp(trace', "createElementIfNotExists")
          /\ ~raised'
          /\ UNCHANGED dispatchVars]_vars

\* an envelope without msgtype carries a job start while "c1" is active
C12_Witness ==
  /\ last.h = "handleMessage"
  /\ last.msg.msgtype = ""
  /\ last.msg.msg = [text |-> "object", msgtype |-> "sparkJobStart"]
  /\ activeCell = "c1"
  /\ numCellsExecuted > cellExecCountSinceSparkJobStart
  /\ trace = <<Ev("warn", NoCell, "Unknown message")>>

\* C13: when the kernel hands out no channel object, or there is no kernel
\* to ask, the callback of startComm ends without raising, sends no
\* announce, registers no inbound handler and leaves this.comm unset.
C13_FailedOpenNonFatal ==
  (last.h = "startCommThen" /\ (kernel = "undefined" \/ last.arg = "undefined"))
    => /\ ~raised
       /\ comm = NoComm
       /\ ~HasOp(trace, "open")
       /\ ~HasOp(trace, "onMsg=")

StageStep ==
  /\ last'.h = "handleMessage"
  /\ Carries(last'.msg, "sparkStageSubmitted")
  /\ activeCell # NoCell

\* C14 (as claimed): a stage-submitted event processed with a cell active
\* and the tracker's counter above the saved counter makes the store reset
\* the cell before the event is forwarded, and the saved counter is updated.
C14_StageResetsOnNewExecution ==
  [][(StageStep /\ numCellsExecuted > cellExecCountSinceSparkJobStart)
       => /\ SinkCalls(trace') =
               <<Ev("onCellExecutedAgain", activeCell, ""),
                 Ev("onSparkStageSubmitted", activeCell, "sparkStageSubmitted")>>
          /\ cellExecCountSinceSparkJobStart' = numCellsExecuted]_vars

\* C14 (amended): a stage-submitted event processed with a cell active is
\* forwarded tagged with that cell and nothing else: no new-execution check
\* is made, so the store gets no reset call and the saved counter is
\* unchanged, whatever the tracker's counter.
C14_StageForwardedWithoutCheck ==
  [][StageStep
       => /\ SinkCalls(trace') =
               <<Ev("onSparkStageSubmitted", activeCell, "sparkStageSubmitted")>>
          /\ cellExecCountSinceSparkJobStart' = cellExecCountSinceSparkJobStart]_vars

\* a stage-submitted event arrives while a new execution is pending
C14_Witness ==
  /\ last.h = "handleMessage"
  /\ Carries(last.msg, "sparkStageSubmitted")
  /\ activeCell = "c1"
  /\ numCellsExecuted = 2
  /\ cellExecCountSinceSparkJobStart = 1
  /\ SinkCalls(trace) = <<Ev("onSparkStageSubmitted", "c1", "sparkStageSubmitted")>>

\* C15: an execution-start signal makes its cell the active cell and adds
\* one to the counter (so after the Nth signal the active cell is the Nth
\* signal's and the counter is N); no other handler (messages, status
\* changes, channel opening) changes either; and a forwarded job-start or
\* stage-submitted event carries the identity of the active cell.
C15_LastWriterWins ==
  [][/\ last'.h = "onCellStarted"
          => (activeCell' = last'.arg /\ numCellsExecuted' = numCellsExecuted + 1)
     /\ last'.h # "onCellStarted"
          => UNCHANGED <<activeCell, numCellsExecuted>>
     /\ last'.h = "handleMessage"
          => \A i \in 1..Len(trace') :
               trace'[i].op \in ForwardOps \cup {"onCellExecutedAgain"}
                 => (activeCell # NoCell /\ trace'[i].cell = activeCell)]_vars

\* a stage-submitted event after "c1" and then "m1" began executing
C15_Witness ==
  /\ last.h = "handleMessage"
  /\ Carries(last.msg, "sparkStageSubmitted")
  /\ activeCell = "m1"
  /\ numCellsExecuted = 2
  /\ cellWidgetMap = {"c1"}
  /\ SinkCalls(trace) = <<Ev("onSparkStageSubmitted", "m1", "sparkStageSubmitted")>>

\* the store method each forwarded kind must reach
Matching ==
  {<<"sparkJobEnd", "onSparkJobEnd">>,
   <<"sparkStageCompleted", "onSparkStageCompleted">>,
   <<"sparkStageActive", "onSparkStageActive">>,
   <<"sparkTaskStart", "onSparkTaskStart">>,
   <<"sparkTaskEnd", "onSparkTaskEnd">>,
   <<"sparkApplicationStart", "onSparkApplicationStart">>,
   <<"sparkExecutorAdded", "onSparkExecutorAdded">>,
   <<"sparkExecutorRemoved", "onSparkExecutorRemoved">>}

\* C16: a message of kind job-end, stage-completed, stage-active,
\* task-start, task-end, application-start, executor-added or
\* executor-removed makes exactly one store call, to the matching method,
\* whether or not a cell is active; it calls neither the reset nor the
\* gate, and leaves the saved counter, the map and the surfaces unchanged.
C16_OtherKindsForwardedOnce ==
  [][\A p \in Matching :
       (last'.h = "handleMessage" /\ Carries(last'.msg, p[1]))
         => /\ Len(trace') = 1
            /\ trace'[1].op = p[2]
            /\ trace'[1].kind = p[1]
            /\ ~raised'
            /\ UNCHANGED dispatchVars]_vars

\* a task end is forwarded while no cell is active
C16_Witness ==
  /\ last.h = "handleMessage"
  /\ Carries(last.msg, "sparkTaskEnd")
  /\ activeCell = NoCell
  /\ trace = <<Ev("onSparkTaskEnd", NoCell, "sparkTaskEnd")>>

\* the cell counts as having its surface: marked in cellWidgetMap ("lab"),
\* or holding the widget in its output area ("part_000", which has no map)
Present(map, surf, c) == IF build = "lab" THEN c \in map ELSE surf[c] > 0

\* the lookups of a gate call let it insert a widget
CanCreate(d) == d.found /\ ~d.hasRoot /\ (build = "lab" \/ d.outputArea)

GateStep ==
  /\ last'.h = "handleMessage"
  /\ JobOrStage(last'.msg)
  /\ activeCell # NoCell
  /\ cellType(activeCell) = "code"

\* C17: a gate call for a code cell whose widget cannot be found leaves the
\* cell unmarked and creates nothing, and the event is still forwarded; a
\* later call for the cell, still unmarked, with the widget findable creates
\* the surface and marks the cell; once a cell is marked the mark stays and
\* no further surface is created for it.
C17_PresentationRetry ==
  [][/\ (GateStep /\ ~last'.dom.found)
          => /\ UNCHANGED <<cellWidgetMap, surfaces>>
             /\ \E i \in 1..Len(trace') :
                  trace'[i].op \in ForwardOps /\ trace'[i].cell = activeCell
     /\ (GateStep /\ ~Present(cellWidgetMap, surfaces, activeCell)
           /\ CanCreate(last'.dom))
          => /\ surfaces'[activeCell] = surfaces[activeCell] + 1
             /\ Present(cellWidgetMap', surfaces', activeCell)
     /\ cellWidgetMap \subseteq cellWidgetMap'
     /\ \A c \in Cells :
          Present(cellWidgetMap, surfaces, c)
            => (Present(cellWidgetMap', surfaces', c) /\ surfaces'[c] = surfaces[c])]_vars

\* the second job start of the only execution of "c1" inserts the widget:
\* the first one could not
C17_Witness ==
  /\ last.h = "handleMessage"
  /\ Carries(last.msg, "sparkJobStart")
  /\ activeCell = "c1"
  /\ numCellsExecuted = 1
  /\ resets = 1
  /\ ~HasOp(trace, "onCellExecutedAgain")
  /\ HasOp(trace, "insertWidget")
  /\ surfaces["c1"] = 1

\* C18: the saved counter never exceeds the tracker's counter and never
\* decreases, and right after a job start processed with a cell active the
\* two are equal.
C18_SavedCounterBounded ==
  [][/\ cellExecCountSinceSparkJobStart' <= numCellsExecuted'
     /\ cellExecCountSinceSparkJobStart' >= cellExecCountSinceSparkJobStart
     /\ (last'.h = "handleMessage" /\ Carries(last'.msg, "sparkJobStart")
           /\ activeCell # NoCell)
          => cellExecCountSinceSparkJobStart' = numCellsExecuted']_vars

\* a job start for the second execution caught the saved counter up
C18_Witness ==
  /\ last.h = "handleMessage"
  /\ Carries(last.msg, "sparkJobStart")
  /\ activeCell = "m1"
  /\ numCellsExecuted = 2
  /\ cellExecCountSinceSparkJobStart = 2
  /\ resets = 1

\* C19: at most one onCellExecutedAgain call is made between two
\* consecutive execution-start signals, the calls never outnumber the
\* signals, and each call is immediately followed by the onSparkJobStart
\* forward for the same cell, which is the active cell.
C19_OneResetPerExecution ==
  /\ resetsSinceStart <= 1
  /\ resets <= numCellsExecuted
  /\ last.h = "handleMessage"
       => \A i \in 1..Len(trace) :
            trace[i].op = "onCellExecutedAgain"
              => /\ i < Len(trace)
                 /\ trace[i + 1].op = "onSparkJobStart"
                 /\ trace[i + 1].cell = trace[i].cell
                 /\ trace[i].cell = activeCell

\* a further job start in an execution that already had its reset
C19_Witness ==
  /\ last.h = "handleMessage"
  /\ Carries(last.msg, "sparkJobStart")
  /\ activeCell = "c1"
  /\ numCellsExecuted = 2
  /\ resets = 2
  /\ resetsSinceStart = 1
  /\ SinkCalls(trace) = <<Ev("onSparkJobStart", "c1", "sparkJobStart")>>

StartingStep == last'.h = "statusChanged" /\ last'.arg = "starting"

\* a job start is the first thing handled after a "starting" status
JobAfterStartingStep ==
  /\ last.h = "statusChanged"
  /\ last.arg = "starting"
  /\ last'.h = "handleMessage"
  /\ Carries(last'.msg, "sparkJobStart")
  /\ activeCell # NoCell

\* C20 (as claimed): a "starting" status leaves the saved counter, the
\* tracker's counter, the active cell, the map and the surfaces unchanged,
\* and a job start delivered after it with no execution-start signal in
\* between is forwarded for the active cell and triggers no reset.
C20_RestartThenNoReset ==
  [][/\ StartingStep
          => UNCHANGED <<cellExecCountSinceSparkJobStart, numCellsExecuted,
                         activeCell, cellWidgetMap, surfaces>>
     /\ JobAfterStartingStep
          => SinkCalls(trace') =
               <<Ev("onSparkJobStart", activeCell, "sparkJobStart")>>]_vars

\* C20 (amended): a "starting" status leaves the saved counter, the
\* tracker's counter, the active cell, the map and the surfaces unchanged,
\* and a job start delivered after it with no execution-start signal in
\* between is forwarded for the active cell, with a reset exactly when one
\* was already due before the restart (the counter above the saved counter).
C20_RestartFrame ==
  [][/\ StartingStep
          => UNCHANGED <<cellExecCountSinceSparkJobStart, numCellsExecuted,
                         activeCell, cellWidgetMap, surfaces>>
     /\ JobAfterStartingStep
          => SinkCalls(trace') =
               (IF numCellsExecuted > cellExecCountSinceSparkJobStart
                THEN <<Ev("onCellExecutedAgain", activeCell, "")>> ELSE <<>>)
               \o <<Ev("onSparkJobStart", activeCell, "sparkJobStart")>>]_vars

\* "starting" arrives after a job of the running cell was seen, with a
\* channel open to deliver the next job start
C20_Witness ==
  /\ last.h = "statusChanged"
  /\ last.arg = "starting"
  /\ activeCell = "c1"
  /\ numCellsExecuted = 1
  /\ cellExecCountSinceSparkJobStart = 1
  /\ cellWidgetMap = {"c1"}
  /\ comms # {}

====
